---- MODULE Spec2Model ----
(***************************************************************************)
(* The page list of the reader view (src/view/widgets/reader.rs):          *)
(* PagesItem rows, the PagesList collection with its bookmark highlight,   *)
(* the PagesListState view state and the render pass that composes them.   *)
(*                                                                         *)
(* Rows are indexed from 0 as in the source: a collection is a function    *)
(* with domain 0..n-1.  An Option<usize> is a set: {} is None and {i} is   *)
(* Some(i).                                                                *)
(***************************************************************************)
EXTENDS Integers, FiniteSets, TLC

VARIABLES pages, selected, page_bookmarked, frame, buf, heights, op, run

vars == <<pages, selected, page_bookmarked, frame, buf, heights, op, run>>

(* ------------------------------ bounds -------------------------------- *)

\* Largest number of rows of a collection.
MaxRows == 2

\* PagesList::on_tick is taken only while every row's phase is at most this.
MaxPhase == 1

\* Longest run of consecutive ticks of one row that is counted.
MaxRun == 5

(* ----------------------------- data model ----------------------------- *)

None == {}

Some(i) == {i}

Unwrap(o) == CHOOSE x \in o : TRUE

\* Style::default()
STYLE_DEFAULT == "default"

\* Style::new().on_green().black()
STYLE_PAGE_BOOKMARKED == "on_green_black"

\* crate::global::CURRENT_LIST_ITEM_STYLE, the style of the selected row
CURRENT_LIST_ITEM_STYLE == "current_list_item"

Styles == {STYLE_DEFAULT, STYLE_PAGE_BOOKMARKED, CURRENT_LIST_ITEM_STYLE}

PageItemState == {"Loading", "FinishedLoad", "FailedLoad", "Waiting"}

\* Number of symbols of throbber_widgets_tui::BRAILLE_SIX, the spinner cycle.
SpinnerCycle == 6

\* Indices a caller passes: every row position and one position past the
\* largest collection, which is out of range for every collection.
Indices == 0..MaxRows

NumRows(ps) == Cardinality(DOMAIN ps)

\* ThrobberState::default()
ThrobberState_default == 0

\* ThrobberState::calc_next: one step along the spinner cycle.
calc_next(phase) == (phase + 1) % SpinnerCycle

(* ------------------------------ PagesItem ----------------------------- *)

\* new that starts the row in the Loading state.
new_in_loading_state(number) ==
    [number        |-> number,
     state         |-> "Loading",
     loading_state |-> ThrobberState_default,
     style         |-> STYLE_DEFAULT]

PagesItem_new(number) ==
    [number        |-> number,
     state         |-> "Waiting",
     loading_state |-> ThrobberState_default,
     style         |-> STYLE_DEFAULT]

\* on_tick without the test of the state.
on_tick_in_any_state(row) == [row EXCEPT !.loading_state = calc_next(@)]

PagesItem_on_tick(row) ==
    IF row.state = "Loading"
    THEN [row EXCEPT !.loading_state = calc_next(@)]
    ELSE row

\* pre_render that leaves a bookmarked row's style alone.
pre_render_keeping_bookmark(row, is_selected) ==
    [row    |-> IF is_selected /\ row.style # STYLE_PAGE_BOOKMARKED
                THEN [row EXCEPT !.style = CURRENT_LIST_ITEM_STYLE]
                ELSE row,
     height |-> 2]

\* pre_render that gives the selected row the bookmark style.
pre_render_with_bookmark_style(row, is_selected) ==
    [row    |-> IF is_selected
                THEN [row EXCEPT !.style = STYLE_PAGE_BOOKMARKED]
                ELSE row,
     height |-> 2]

\* pre_render that asks for one line for a row that has finished loading.
pre_render_height_by_state(row, is_selected) ==
    [row    |-> IF is_selected
                THEN [row EXCEPT !.style = CURRENT_LIST_ITEM_STYLE]
                ELSE row,
     height |-> IF row.state = "FinishedLoad" THEN 1 ELSE 2]

\* PreRender::pre_render: the row after the hook and the height it requests.
pre_render(row, is_selected) ==
    [row    |-> IF is_selected
                THEN [row EXCEPT !.style = CURRENT_LIST_ITEM_STYLE]
                ELSE row,
     height |-> 2]

\* Widget::render that lays the label out in the left half in every state.
render_always_split(row) ==
    [block_style |-> row.style,
     block_area  |-> "area",
     label       |-> row.number,
     label_area  |-> "chapter_number_area",
     loader_area |-> CASE row.state = "Loading"      -> "throbber"
                       [] row.state = "FinishedLoad" -> "empty"
                       [] row.state = "FailedLoad"   -> "warning"
                       [] row.state = "Waiting"      -> "sleep",
     symbol      |-> IF row.state = "Loading"
                     THEN row.loading_state % SpinnerCycle ELSE 0]

\* Widget::render of a row: what is written to the buffer.  The row is taken
\* by value, so nothing the spinner widget does to loading_state outlives
\* the call; the spinner symbol drawn is the phase within the cycle.
PagesItem_render(row) ==
    [block_style |-> row.style,
     block_area  |-> "area",
     label       |-> row.number,
     label_area  |-> IF row.state = "FinishedLoad"
                     THEN "area" ELSE "chapter_number_area",
     loader_area |-> CASE row.state = "Loading"      -> "throbber"
                       [] row.state = "FinishedLoad" -> "empty"
                       [] row.state = "FailedLoad"   -> "warning"
                       [] row.state = "Waiting"      -> "sleep",
     symbol      |-> IF row.state = "Loading"
                     THEN row.loading_state % SpinnerCycle ELSE 0]

(* ------------------------------ PagesList ----------------------------- *)

PagesList_new(rows) == rows

\* on_tick that stops after the first row.
on_tick_first_row_only(ps) ==
    [k \in DOMAIN ps |-> IF k = 0 THEN PagesItem_on_tick(ps[k]) ELSE ps[k]]

PagesList_on_tick(ps) == [k \in DOMAIN ps |-> PagesItem_on_tick(ps[k])]

\* reset_style that replaces every row by a new one of the same number.
reset_style_recreating_rows(ps) ==
    [k \in DOMAIN ps |-> PagesItem_new(ps[k].number)]

\* reset_style that clears the bookmark style only.
reset_style_of_bookmarked_only(ps) ==
    [k \in DOMAIN ps |->
        IF ps[k].style = STYLE_PAGE_BOOKMARKED
        THEN [ps[k] EXCEPT !.style = STYLE_DEFAULT]
        ELSE ps[k]]

reset_style(ps) == [k \in DOMAIN ps |-> [ps[k] EXCEPT !.style = STYLE_DEFAULT]]

\* highlight_page_as_bookmarked without the call of reset_style.
highlight_without_reset(ps, page_index) ==
    IF page_index \in DOMAIN ps
    THEN [ps EXCEPT ![page_index].style = STYLE_PAGE_BOOKMARKED]
    ELSE ps

\* highlight_page_as_bookmarked that takes the mark off a row that has it.
highlight_toggle(ps, page_index) ==
    LET cleared == reset_style(ps)
    IN  IF page_index \in DOMAIN ps
           /\ ps[page_index].style # STYLE_PAGE_BOOKMARKED
        THEN [cleared EXCEPT ![page_index].style = STYLE_PAGE_BOOKMARKED]
        ELSE cleared

highlight_page_as_bookmarked(ps, page_index) ==
    LET cleared == reset_style(ps)
    IN  IF page_index \in DOMAIN cleared
        THEN [cleared EXCEPT ![page_index].style = STYLE_PAGE_BOOKMARKED]
        ELSE cleared

(* --------------------------- PagesListState --------------------------- *)

PagesListState_new(bookmark) ==
    [selected |-> None, page_bookmarked |-> bookmark]

\* set_page_bookmarked that keeps a bookmark that is already set.
set_page_bookmarked_if_unset(bookmark) ==
    IF page_bookmarked = None THEN Some(bookmark) ELSE page_bookmarked

\* set_page_bookmarked that takes the bookmark off the page that has it.
set_page_bookmarked_toggle(bookmark) ==
    IF page_bookmarked = Some(bookmark) THEN None ELSE Some(bookmark)

set_page_bookmarked(bookmark) == Some(bookmark)

(* ----------------------------- render pass ---------------------------- *)

\* tui_widget_list::List rendering the rows: each row's pre_render hook is
\* told whether the row is the selected one, then the row is drawn.
List_render(items, sel) ==
    [k \in DOMAIN items |-> pre_render(items[k], sel = Some(k)).row]

\* The heights the rows request from tui_widget_list::List in their
\* pre_render hooks.
List_heights(items, sel) ==
    [k \in DOMAIN items |-> pre_render(items[k], sel = Some(k)).height]

\* render without the test that nothing is selected.
render_always_prefocus(self, sel, bookmark) ==
    LET sel1  == IF bookmark # None THEN bookmark ELSE sel
        self1 == IF bookmark # None
                 THEN highlight_page_as_bookmarked(self, Unwrap(bookmark))
                 ELSE self
    IN  [selected |-> sel1, rows |-> List_render(self1, sel1),
         heights  |-> List_heights(self1, sel1)]

\* render that advances the animation of the rows it draws.
render_advancing_animation(self, sel, bookmark) ==
    LET sel1  == IF bookmark # None /\ sel = None THEN bookmark ELSE sel
        self1 == IF bookmark # None
                 THEN highlight_page_as_bookmarked(self, Unwrap(bookmark))
                 ELSE self
    IN  [selected |-> sel1,
         rows     |-> List_render(PagesList_on_tick(self1), sel1),
         heights  |-> List_heights(self1, sel1)]

\* render that clears the styles when there is no bookmark.
render_clearing_without_bookmark(self, sel, bookmark) ==
    LET sel1  == IF bookmark # None /\ sel = None THEN bookmark ELSE sel
        self1 == IF bookmark # None
                 THEN highlight_page_as_bookmarked(self, Unwrap(bookmark))
                 ELSE reset_style(self)
    IN  [selected |-> sel1, rows |-> List_render(self1, sel1),
         heights  |-> List_heights(self1, sel1)]

\* StatefulWidget::render of PagesList: the selection after the pass, the
\* rows as they are handed to Widget::render and the heights they requested.
PagesList_render(self, sel, bookmark) ==
    LET sel1  == IF bookmark # None /\ sel = None THEN bookmark ELSE sel
        self1 == IF bookmark # None
                 THEN highlight_page_as_bookmarked(self, Unwrap(bookmark))
                 ELSE self
    IN  [selected |-> sel1, rows |-> List_render(self1, sel1),
         heights  |-> List_heights(self1, sel1)]

(* ------------------------------- state -------------------------------- *)

NoFrame == << >>

NoRun == [n |-> 0, from |-> 0]

Event(name, arg) == [name |-> name, arg |-> arg, again |-> FALSE]

\* Collections of n rows a caller can build: rows numbered by position,
\* in any state and carrying any style (the fields are public).
RowsOf(n) ==
    { [k \in 0..(n - 1) |->
          [PagesItem_new(k) EXCEPT !.state = f[k].state, !.style = f[k].style]] :
      f \in [0..(n - 1) -> [state : PageItemState, style : Styles]] }

Init ==
    /\ \E n \in 0..MaxRows : \E rows \in RowsOf(n) : pages = PagesList_new(rows)
    /\ \E b \in {None} \cup {Some(i) : i \in Indices} :
          /\ selected = PagesListState_new(b).selected
          /\ page_bookmarked = PagesListState_new(b).page_bookmarked
    /\ frame = NoFrame
    /\ buf = NoFrame
    /\ heights = NoFrame
    /\ op = Event("new", 0)
    /\ run = NoRun

(* ------------------------------ actions ------------------------------- *)

\* The load driver assigns a row's state.
SetState(k, s) ==
    /\ k \in DOMAIN pages
    /\ pages' = [pages EXCEPT ![k].state = s]
    /\ frame' = NoFrame
    /\ buf' = NoFrame
    /\ heights' = NoFrame
    /\ op' = Event("set_state", k)
    /\ run' = IF k = 0 THEN [n |-> 0, from |-> pages[0].loading_state] ELSE run
    /\ UNCHANGED <<selected, page_bookmarked>>

\* The caller opens a chapter: n rows made by PagesItem::new, numbered from
\* first, wrapped by PagesList::new.
Create(n, first) ==
    /\ pages' = PagesList_new([k \in 0..(n - 1) |-> PagesItem_new(first + k)])
    /\ frame' = NoFrame
    /\ buf' = NoFrame
    /\ heights' = NoFrame
    /\ op' = Event("create", first)
    /\ run' = [n |-> 0, from |-> ThrobberState_default]
    /\ UNCHANGED <<selected, page_bookmarked>>

\* PagesList::on_tick, one UI tick.  run counts the ticks row 0 has taken
\* while Loading since its state was last assigned.
OnTick ==
    /\ pages' = PagesList_on_tick(pages)
    /\ frame' = NoFrame
    /\ buf' = NoFrame
    /\ heights' = NoFrame
    /\ op' = Event("on_tick", 0)
    /\ run' = IF 0 \in DOMAIN pages /\ pages[0].state = "Loading"
              THEN [run EXCEPT !.n = @ + 1]
              ELSE run
    /\ UNCHANGED <<selected, page_bookmarked>>

\* The tick of the view specification, taken while the phases are small.
Tick ==
    /\ \A k \in DOMAIN pages : pages[k].loading_state <= MaxPhase
    /\ OnTick

\* The tick of the load specification, taken while the run is short.
LoadTick ==
    /\ run.n < MaxRun
    /\ OnTick

\* A direct call of PagesList::highlight_page_as_bookmarked.
Highlight(i) ==
    /\ pages' = highlight_page_as_bookmarked(pages, i)
    /\ frame' = NoFrame
    /\ buf' = NoFrame
    /\ heights' = NoFrame
    /\ op' = [name  |-> "highlight", arg |-> i,
              again |-> op.name = "highlight" /\ op.arg = i]
    /\ UNCHANGED <<selected, page_bookmarked, run>>

SetPageBookmarked(j) ==
    /\ page_bookmarked' = set_page_bookmarked(j)
    /\ frame' = NoFrame
    /\ buf' = NoFrame
    /\ heights' = NoFrame
    /\ op' = Event("set_page_bookmarked", j)
    /\ UNCHANGED <<pages, selected, run>>

\* The user moves the list cursor to a row.
Select(s) ==
    /\ s \in DOMAIN pages
    /\ selected' = Some(s)
    /\ frame' = NoFrame
    /\ buf' = NoFrame
    /\ heights' = NoFrame
    /\ op' = Event("select", s)
    /\ UNCHANGED <<pages, page_bookmarked, run>>

\* One draw cycle.  The pass takes the collection by value: the caller's
\* collection is as it was, the rows of the pass are in frame.
Render ==
    LET pass == PagesList_render(pages, selected, page_bookmarked)
    IN  /\ selected' = pass.selected
        /\ frame' = pass.rows
        /\ buf' = [k \in DOMAIN pass.rows |-> PagesItem_render(pass.rows[k])]
        /\ heights' = pass.heights
        /\ op' = Event("render", 0)
        /\ UNCHANGED <<pages, page_bookmarked, run>>

\* The view: bookmark, selection and render on a collection whose rows are
\* in any state; ticks advance the rows that are Loading.
Next ==
    \/ Tick
    \/ \E i \in Indices : Highlight(i)
    \/ \E j \in Indices : SetPageBookmarked(j)
    \/ \E s \in 0..(MaxRows - 1) : Select(s)
    \/ Render

Spec == Init /\ [][Next]_vars

\* The load driver: rows in any state and at any phase of the spinner cycle,
\* chapters opened, state assignments, ticks and draw cycles.
LoadRowsOf(n) ==
    { [k \in 0..(n - 1) |->
          [PagesItem_new(k) EXCEPT !.state = f[k].state,
                                   !.loading_state = f[k].phase]] :
      f \in [0..(n - 1) ->
               [state : PageItemState, phase : 0..(SpinnerCycle - 1)]] }

LoadInit ==
    /\ \E n \in 1..MaxRows : \E rows \in LoadRowsOf(n) : pages = PagesList_new(rows)
    /\ selected = PagesListState_new(None).selected
    /\ page_bookmarked = PagesListState_new(None).page_bookmarked
    /\ frame = NoFrame
    /\ buf = NoFrame
    /\ heights = NoFrame
    /\ op = Event("new", 0)
    /\ run = [n |-> 0, from |-> pages[0].loading_state]

LoadNext ==
    \/ \E k \in 0..(MaxRows - 1), s \in PageItemState : SetState(k, s)
    \/ LoadTick
    \/ \E n \in 1..MaxRows, first \in {0, 1} : Create(n, first)
    \/ Render

LoadSpec == LoadInit /\ [][LoadNext]_vars

(* ------------------------------- claims ------------------------------- *)

\* Positions of ps whose row carries the bookmark style.
Bookmarked(ps) == {k \in DOMAIN ps : ps[k].style = STYLE_PAGE_BOOKMARKED}

AtMostOneBookmarked(ps) == Cardinality(Bookmarked(ps)) <= 1

\* The style a render pass is said to derive for position r.
DerivedStyle(r) ==
    IF selected = Some(r) THEN CURRENT_LIST_ITEM_STYLE
    ELSE IF page_bookmarked = Some(r) THEN STYLE_PAGE_BOOKMARKED
    ELSE STYLE_DEFAULT

\* C1: after a call highlight_page_as_bookmarked(i), whatever the styles
\* before it, at most one row carries the bookmark style; if i is a row
\* position it is row i and every other row has the default style; if i is
\* out of range every row has the default style.
C1_SingleBookmarkAfterHighlight ==
    op.name = "highlight" =>
        /\ AtMostOneBookmarked(pages)
        /\ op.arg < NumRows(pages) =>
              /\ pages[op.arg].style = STYLE_PAGE_BOOKMARKED
              /\ \A k \in DOMAIN pages \ {op.arg} : pages[k].style = STYLE_DEFAULT
        /\ op.arg >= NumRows(pages) =>
              \A k \in DOMAIN pages : pages[k].style = STYLE_DEFAULT

\* A collection of two rows right after the highlight of one of them.
C1_Witness ==
    /\ op.name = "highlight"
    /\ NumRows(pages) = 2
    /\ op.arg \in DOMAIN pages
    /\ Bookmarked(pages) = {op.arg}

\* C2: a tick changes the phase of a row if and only if the row is Loading;
\* a row that has been Loading for five consecutive ticks is at a phase other
\* than the one it started from.
C2_AnimationGating ==
    /\ [][op'.name = "on_tick" =>
            \A k \in DOMAIN pages :
                (pages'[k].loading_state # pages[k].loading_state)
                    <=> (pages[k].state = "Loading")]_vars
    /\ [](run.n = 5 => pages[0].loading_state # run.from)

\* Row 0 right after its fifth consecutive tick while Loading.
C2_Witness ==
    /\ op.name = "on_tick"
    /\ run.n = 5
    /\ pages[0].state = "Loading"

\* C3: a render pass entered with no selection and page_bookmarked = Some(b)
\* leaves the selection at b; a render pass entered with a selection leaves
\* it as it was, whatever the bookmark.
C3_PreFocusOnlyWhenUnselected ==
    [][op'.name = "render" =>
          /\ (selected = None /\ page_bookmarked # None) =>
                selected' = page_bookmarked
          /\ selected # None => selected' = selected]_vars

\* After a render pass the selection is a row other than the bookmarked one.
C3_Witness ==
    /\ op.name = "render"
    /\ page_bookmarked # None
    /\ selected # None
    /\ selected # page_bookmarked

\* C4: in a render pass with page_bookmarked = Some(i), i a row position, a
\* selected row i is drawn with the selection style; when another row s is
\* selected, s is drawn with the selection style and i with the bookmark style.
C4_SelectionWinsOverBookmark ==
    (op.name = "render" /\ page_bookmarked # None
        /\ Unwrap(page_bookmarked) \in DOMAIN frame) =>
        LET i == Unwrap(page_bookmarked)
        IN  /\ selected = Some(i) =>
                  /\ frame[i].style = CURRENT_LIST_ITEM_STYLE
                  /\ buf[i].block_style = CURRENT_LIST_ITEM_STYLE
            /\ \A s \in DOMAIN frame \ {i} :
                  selected = Some(s) =>
                      /\ frame[s].style = CURRENT_LIST_ITEM_STYLE
                      /\ frame[i].style = STYLE_PAGE_BOOKMARKED
                      /\ buf[i].block_style = STYLE_PAGE_BOOKMARKED

\* A pass that drew the bookmarked row while it was the selected row.
C4_Witness ==
    /\ op.name = "render"
    /\ page_bookmarked # None
    /\ selected = page_bookmarked
    /\ Unwrap(page_bookmarked) \in DOMAIN frame
    /\ frame[Unwrap(page_bookmarked)].style = CURRENT_LIST_ITEM_STYLE

\* C5: a render pass leaves page_bookmarked as it was, draws rows with the
\* number, state and phase they had, leaves the caller's rows with theirs,
\* and changes the selection only from unset to the bookmark.
C5_RenderFrameCondition ==
    [][op'.name = "render" =>
          /\ page_bookmarked' = page_bookmarked
          /\ DOMAIN frame' = DOMAIN pages
          /\ DOMAIN pages' = DOMAIN pages
          /\ \A k \in DOMAIN pages :
                /\ frame'[k].number = pages[k].number
                /\ frame'[k].state = pages[k].state
                /\ frame'[k].loading_state = pages[k].loading_state
                /\ pages'[k].number = pages[k].number
                /\ pages'[k].state = pages[k].state
                /\ pages'[k].loading_state = pages[k].loading_state
          /\ selected' # selected =>
                (selected = None /\ selected' = page_bookmarked)]_vars

\* A pass that restyled a Loading row that had been ticked.
C5_Witness ==
    /\ op.name = "render"
    /\ \E k \in DOMAIN frame :
          /\ frame[k].state = "Loading"
          /\ frame[k].loading_state # ThrobberState_default
          /\ frame[k].style # pages[k].style

\* C6 as stated: in every state at most one row carries the bookmark style.
C6_AlwaysSingleBookmark ==
    /\ AtMostOneBookmarked(pages)
    /\ AtMostOneBookmarked(frame)

\* C6: no operation takes a collection with at most one row in the bookmark
\* style to one with more, neither in the collection nor in the rows a
\* render pass draws.
C6_SingleBookmarkPreserved ==
    [][AtMostOneBookmarked(pages) =>
          /\ AtMostOneBookmarked(pages')
          /\ AtMostOneBookmarked(frame')]_vars

\* A pass without a bookmark that drew one row in the bookmark style while
\* another row was the selected one.
C6_Witness ==
    /\ op.name = "render"
    /\ page_bookmarked = None
    /\ selected # None
    /\ Cardinality(Bookmarked(frame)) = 1
    /\ AtMostOneBookmarked(pages)

\* C7 as stated: after any render pass every row is drawn with the style
\* derived from the selection and page_bookmarked, be it Some or None.
C7_StyleDerivedEveryRender ==
    op.name = "render" =>
        \A r \in DOMAIN frame : frame[r].style = DerivedStyle(r)

\* C7: after a render pass with page_bookmarked = Some(i), whatever the
\* styles before it, every row is drawn with the selection style if it is
\* the selected row, else the bookmark style if it is row i, else the
\* default style.
C7_StyleDerivedWithBookmark ==
    (op.name = "render" /\ page_bookmarked # None) =>
        \A r \in DOMAIN frame : frame[r].style = DerivedStyle(r)

\* A pass with a bookmark whose drawn styles all differ from the styles the
\* rows came with.
C7_Witness ==
    /\ op.name = "render"
    /\ page_bookmarked # None
    /\ NumRows(frame) = 2
    /\ \E i, s \in DOMAIN frame :
          /\ i # s
          /\ page_bookmarked = Some(i)
          /\ selected = Some(s)
          /\ pages[i].style # STYLE_PAGE_BOOKMARKED
          /\ pages[s].style # CURRENT_LIST_ITEM_STYLE

\* C8: in a render pass with page_bookmarked = None every row other than
\* the selected one is drawn with the style it had before the pass.
C8_StickyWithoutBookmark ==
    [][(op'.name = "render" /\ page_bookmarked = None) =>
          \A k \in DOMAIN pages :
              selected' # Some(k) => frame'[k].style = pages[k].style]_vars

\* A pass without a bookmark that drew an unselected row in the bookmark
\* style it came with.
C8_Witness ==
    /\ op.name = "render"
    /\ page_bookmarked = None
    /\ \E k \in DOMAIN frame :
          /\ selected # Some(k)
          /\ pages[k].style = STYLE_PAGE_BOOKMARKED
          /\ frame[k].style = STYLE_PAGE_BOOKMARKED

\* C9: every index held as a row position has been checked against the
\* number of rows: the selection is unset or the position of a row.
C9_IndicesChecked ==
    selected = None \/ Unwrap(selected) < NumRows(pages)

\* C10: a second call highlight_page_as_bookmarked(i) right after a first
\* one with the same i leaves every row as the first call left it.
C10_HighlightIdempotent ==
    [][(op'.name = "highlight" /\ op'.again) => pages' = pages]_vars

\* A collection of two rows right after the second of two equal calls.
C10_Witness ==
    /\ op.name = "highlight"
    /\ op.again
    /\ NumRows(pages) = 2
    /\ op.arg \in DOMAIN pages

\* C11: set_page_bookmarked(j) leaves page_bookmarked at Some(j) whatever it
\* was, and leaves the selection and every row as they were.
C11_SetBookmarkOnlySetsBookmark ==
    [][op'.name = "set_page_bookmarked" =>
          /\ page_bookmarked' = Some(op'.arg)
          /\ selected' = selected
          /\ pages' = pages]_vars

\* Right after set_page_bookmarked(j), with another row selected and the
\* bookmark style still on a row other than j.
C11_Witness ==
    /\ op.name = "set_page_bookmarked"
    /\ page_bookmarked = Some(op.arg)
    /\ selected # None
    /\ selected # page_bookmarked
    /\ \E k \in DOMAIN pages :
          k # op.arg /\ pages[k].style = STYLE_PAGE_BOOKMARKED

\* C12: pre_render asks for a height of exactly 2 for a row in any state,
\* of any style, selected or not; so does every row of a render pass.
C12_RowHeightIsTwo ==
    /\ \A k \in DOMAIN pages : \A b \in BOOLEAN :
          pre_render(pages[k], b).height = 2
    /\ op.name = "render" =>
          /\ DOMAIN heights = DOMAIN frame
          /\ \A k \in DOMAIN heights : heights[k] = 2

\* A pass over two rows in different states, the first of them selected.
C12_Witness ==
    /\ op.name = "render"
    /\ NumRows(frame) = 2
    /\ frame[0].state = "FinishedLoad"
    /\ frame[1].state = "Loading"
    /\ selected = Some(0)
    /\ heights[0] = 2
    /\ heights[1] = 2

\* C13: a row's label is laid out in the whole row area exactly when the
\* row is FinishedLoad, else in the left half with the spinner, the warning
\* glyph or the sleep glyph in the right half; the row's style is painted
\* over the whole row area in every state.
C13_FullWidthWhenFinished ==
    op.name = "render" =>
        \A k \in DOMAIN buf :
            /\ buf[k].block_area = "area"
            /\ buf[k].block_style = frame[k].style
            /\ (buf[k].label_area = "area") <=> (frame[k].state = "FinishedLoad")
            /\ frame[k].state # "FinishedLoad" =>
                  buf[k].label_area = "chapter_number_area"
            /\ frame[k].state = "Loading" => buf[k].loader_area = "throbber"
            /\ frame[k].state = "FailedLoad" => buf[k].loader_area = "warning"
            /\ frame[k].state = "Waiting" => buf[k].loader_area = "sleep"

\* A pass that drew a FinishedLoad row and a Loading row.
C13_Witness ==
    /\ op.name = "render"
    /\ NumRows(buf) = 2
    /\ frame[0].state = "FinishedLoad"
    /\ buf[0].label_area = "area"
    /\ frame[1].state = "Loading"
    /\ buf[1].label_area = "chapter_number_area"

\* C14: PagesItem::new(number) gives a row of that number, Waiting, at the
\* zero phase and of the default style; a tick leaves such a row as it is.
C14_NewRowIsWaiting ==
    /\ [](op.name = "create" =>
            \A k \in DOMAIN pages :
                pages[k] = [number        |-> op.arg + k,
                            state         |-> "Waiting",
                            loading_state |-> 0,
                            style         |-> STYLE_DEFAULT])
    /\ [][op'.name = "on_tick" =>
            /\ op.name = "create" => pages' = pages
            /\ \A k \in DOMAIN pages :
                  (pages[k].state = "Waiting" /\ pages[k].loading_state = 0)
                      => pages'[k] = pages[k]]_vars

\* Two rows numbered from 1, as created, right after a tick.
C14_Witness ==
    /\ op.name = "on_tick"
    /\ NumRows(pages) = 2
    /\ \A k \in DOMAIN pages :
          pages[k] = [number        |-> 1 + k,
                      state         |-> "Waiting",
                      loading_state |-> 0,
                      style         |-> STYLE_DEFAULT]

\* C15: a tick advances every Loading row by exactly one step and no other
\* row, and a render pass draws every row at the phase the collection holds,
\* which is the phase before or after a whole tick.
C15_TickIsWhole ==
    [][/\ op'.name = "on_tick" =>
            \A k \in DOMAIN pages :
                pages'[k].loading_state =
                    IF pages[k].state = "Loading"
                    THEN (pages[k].loading_state + 1) % SpinnerCycle
                    ELSE pages[k].loading_state
       /\ op'.name = "render" =>
            /\ DOMAIN frame' = DOMAIN pages
            /\ \A k \in DOMAIN pages :
                  frame'[k].loading_state = pages[k].loading_state]_vars

\* A pass over two Loading rows after row 0 has been ticked.
C15_Witness ==
    /\ op.name = "render"
    /\ NumRows(frame) = 2
    /\ \A k \in DOMAIN frame : frame[k].state = "Loading"
    /\ run.n >= 1
    /\ frame[0].loading_state = (run.from + run.n) % SpinnerCycle

\* C16: on_tick, highlight_page_as_bookmarked, set_page_bookmarked and a
\* render pass with its pre_render hooks leave the number and order of the
\* rows and every row's number and state as they were; on_tick also leaves
\* the styles, highlight_page_as_bookmarked also leaves the phases.
C16_StateAndIdentityKept ==
    [][op'.name \in {"on_tick", "highlight", "set_page_bookmarked", "render"} =>
          /\ DOMAIN pages' = DOMAIN pages
          /\ \A k \in DOMAIN pages :
                /\ pages'[k].number = pages[k].number
                /\ pages'[k].state = pages[k].state
          /\ op'.name = "render" =>
                /\ DOMAIN frame' = DOMAIN pages
                /\ \A k \in DOMAIN pages :
                      /\ frame'[k].number = pages[k].number
                      /\ frame'[k].state = pages[k].state
          /\ op'.name = "on_tick" =>
                \A k \in DOMAIN pages : pages'[k].style = pages[k].style
          /\ op'.name = "highlight" =>
                \A k \in DOMAIN pages :
                    pages'[k].loading_state = pages[k].loading_state]_vars

\* Right after the highlight of a Loading row that had been ticked.
C16_Witness ==
    /\ op.name = "highlight"
    /\ op.arg \in DOMAIN pages
    /\ pages[op.arg].state = "Loading"
    /\ pages[op.arg].loading_state # ThrobberState_default
    /\ pages[op.arg].style = STYLE_PAGE_BOOKMARKED

\* C17: a render pass entered with the selection unset or on a row leaves
\* it unset or on a row.
C17_RenderSelectsARow ==
    [][(/\ op'.name = "render"
        /\ \A s \in selected : s < NumRows(pages))
          => \A s \in selected' : s < NumRows(pages')]_vars

\* C18: once page_bookmarked is Some no operation makes it None, and every
\* render pass from then on draws the bookmarked row, unless it is the
\* selected one, in the bookmark style and no other row in it.
C18_BookmarkNeverCleared ==
    [][/\ page_bookmarked # None => page_bookmarked' # None
       /\ (op'.name = "render" /\ page_bookmarked # None) =>
            \A k \in DOMAIN frame' :
                (frame'[k].style = STYLE_PAGE_BOOKMARKED)
                    <=> (page_bookmarked' = Some(k) /\ selected' # Some(k))]_vars

\* A pass, after the bookmark was set, that put the bookmark style on a row
\* that came without it.
C18_Witness ==
    /\ op.name = "render"
    /\ page_bookmarked # None
    /\ \E k \in DOMAIN frame :
          /\ page_bookmarked = Some(k)
          /\ frame[k].style = STYLE_PAGE_BOOKMARKED
          /\ pages[k].style # STYLE_PAGE_BOOKMARKED

====
